---- MODULE Spec2Model ----
(***************************************************************************)
(* A model of the Tessellation program: class TessShape (tess_shape.h),    *)
(* the snap-pair search Tess::FindClosestSnapPoints and the frames of the  *)
(* application, Tess::OnUserUpdate with its two tools (tess.cpp).          *)
(*                                                                         *)
(* Numbers.  The code computes in 32-bit floats.  The model is fixed-point:*)
(*   - a coordinate is an integer number of ticks, one tick = 0.005 world  *)
(*     units (half of the 0.01 the code rounds to, so that edge midpoints  *)
(*     of rounded vertices and half-cent translations are exact);          *)
(*   - an angle is an integer number of degrees, a multiple of 5;          *)
(*   - cos and sin are read from a table of cos(0), cos(5), ... cos(90)    *)
(*     scaled by TRIG_SCALE, extended by symmetry and 360-periodicity;     *)
(*   - std::round is round-half-away-from-zero on the exact quotient.      *)
(***************************************************************************)
EXTENDS Integers, Sequences, FiniteSets, TLC

VARIABLES shape, closest, ret, snapPairs, lastTarget, hist, app, frame

vars == <<shape, closest, ret, snapPairs, lastTarget, hist, app, frame>>

(***************************************************************************)
(* Units and arithmetic helpers                                            *)
(***************************************************************************)

\* ticks per world unit: one tick is 0.005
TicksPerUnit == 200

\* ticks per 0.01, the grid RoundPointCoordinates(point, 2) rounds to
TicksPerCent == 2

\* scale of the cos/sin table
TRIG_SCALE == 10000

Abs(n) == IF n < 0 THEN -n ELSE n

\* std::round of the quotient n / d (d > 0): nearest integer, halves away from zero
RoundHalfAway(n, d) ==
    IF n >= 0 THEN (2 * n + d) \div (2 * d)
    ELSE -((2 * (-n) + d) \div (2 * d))

\* olc::vf2d
Vec(x, y) == [x |-> x, y |-> y]

VecAdd(a, b) == [x |-> a.x + b.x, y |-> a.y + b.y]

VecSub(a, b) == [x |-> a.x - b.x, y |-> a.y - b.y]

\* a world position given in hundredths of a unit
Cent(cx, cy) == Vec(cx * TicksPerCent, cy * TicksPerCent)

\* cos(0), cos(5), ..., cos(90), scaled by TRIG_SCALE
CosTable ==
    <<10000, 9962, 9848, 9659, 9397, 9063, 8660, 8192, 7660, 7071,
      6428, 5736, 5000, 4226, 3420, 2588, 1736, 872, 0>>

\* cos of a whole number of degrees (a multiple of 5), scaled by TRIG_SCALE
Cos(deg) ==
    LET d == deg % 360
    IN  IF d <= 90 THEN CosTable[(d \div 5) + 1]
        ELSE IF d <= 180 THEN -CosTable[((180 - d) \div 5) + 1]
        ELSE IF d <= 270 THEN -CosTable[((d - 180) \div 5) + 1]
        ELSE CosTable[((360 - d) \div 5) + 1]

\* sin of a whole number of degrees (a multiple of 5), scaled by TRIG_SCALE
Sin(deg) == Cos(deg - 90)

RECURSIVE IsqrtIter(_, _, _)
\* largest r in lo..hi with r * r <= n
IsqrtIter(n, lo, hi) ==
    IF lo >= hi THEN lo
    ELSE LET mid == (lo + hi + 1) \div 2
         IN  IF mid * mid <= n THEN IsqrtIter(n, mid, hi)
             ELSE IsqrtIter(n, lo, mid - 1)

\* olc::vf2d::mag(): sqrt(x*x + y*y), to the tick below
Mag(v) == IsqrtIter(v.x * v.x + v.y * v.y, 0, 46340)

(***************************************************************************)
(* class TessShape                                                         *)
(***************************************************************************)

\* a null pointer / no object
Null == [null |-> TRUE]

\* olc::BLANK, the constructor's colour
BLANK == "BLANK"

\* Round the coordinates of a point to 2 decimal places; the point's
\* coordinates are given as numerators over den ticks
RoundPointCoordinates(point, den) ==
    [x |-> TicksPerCent * RoundHalfAway(point.x, TicksPerCent * den),
     y |-> TicksPerCent * RoundHalfAway(point.y, TicksPerCent * den)]

RECURSIVE SumX(_)
SumX(points) == IF points = <<>> THEN 0 ELSE Head(points).x + SumX(Tail(points))

RECURSIVE SumY(_)
SumY(points) == IF points = <<>> THEN 0 ELSE Head(points).y + SumY(Tail(points))

\* the arithmetic mean of the points (the float quotient, to the nearest tick)
computeCentroid(points) ==
    [x |-> RoundHalfAway(SumX(points), Len(points)),
     y |-> RoundHalfAway(SumY(points), Len(points))]

\* the constructor: no check of the number of points
TessShape(points) ==
    [originalPoints_   |-> points,
     originalCentroid_ |-> computeCentroid(points),
     drawPoints_       |-> points,
     drawCentroid_     |-> computeCentroid(points),
     translation_      |-> Vec(0, 0),
     rotation_         |-> 0,
     dirty_            |-> TRUE,
     color_            |-> BLANK,
     fill_             |-> FALSE]

\* RotatePoint as it would be without the rounding after the rotation (the
\* rotated point kept to the tick)
RotatePoint_NoRound(s, point) ==
    LET xTranslated == point.x - s.originalCentroid_.x
        yTranslated == point.y - s.originalCentroid_.y
        xRotated == xTranslated * Cos(s.rotation_) - yTranslated * Sin(s.rotation_)
                    + s.originalCentroid_.x * TRIG_SCALE
        yRotated == xTranslated * Sin(s.rotation_) + yTranslated * Cos(s.rotation_)
                    + s.originalCentroid_.y * TRIG_SCALE
    IN  Vec(RoundHalfAway(xRotated, TRIG_SCALE), RoundHalfAway(yRotated, TRIG_SCALE))

\* one original point rotated about the original centroid and rounded
\* (first loop of recalculateDrawPoints)
RotatePoint(s, point) ==
    LET xTranslated == point.x - s.originalCentroid_.x
        yTranslated == point.y - s.originalCentroid_.y
        xRotated == xTranslated * Cos(s.rotation_) - yTranslated * Sin(s.rotation_)
                    + s.originalCentroid_.x * TRIG_SCALE
        yRotated == xTranslated * Sin(s.rotation_) + yTranslated * Cos(s.rotation_)
                    + s.originalCentroid_.y * TRIG_SCALE
    IN  RoundPointCoordinates(Vec(xRotated, yRotated), TRIG_SCALE)

\* a rotated, rounded point translated and rounded again
\* (second loop of recalculateDrawPoints)
TranslatePoint(s, point) ==
    RoundPointCoordinates(VecAdd(point, s.translation_), 1)

\* recalculateDrawPoints as it would be were the points transformed in
\* place, the result written over originalPoints_ as well
recalculateDrawPoints_InPlace(s) ==
    LET points == [i \in 1..Len(s.originalPoints_) |->
                      TranslatePoint(s, RotatePoint(s, s.originalPoints_[i]))]
    IN  [s EXCEPT
           !.originalPoints_ = points,
           !.drawPoints_ = points,
           !.drawCentroid_ =
               RoundPointCoordinates(VecAdd(s.originalCentroid_, s.translation_), 1)]

recalculateDrawPoints(s) ==
    [s EXCEPT
       !.drawPoints_ =
           [i \in 1..Len(s.originalPoints_) |->
               TranslatePoint(s, RotatePoint(s, s.originalPoints_[i]))],
       !.drawCentroid_ =
           RoundPointCoordinates(VecAdd(s.originalCentroid_, s.translation_), 1)]

\* Refreshed as it would be without "dirty_ = false"
Refreshed_KeepDirty(s) ==
    IF s.dirty_ THEN recalculateDrawPoints(s) ELSE s

\* the "if (dirty_) { recalculateDrawPoints(); dirty_ = false; }" of every reader
Refreshed(s) ==
    IF s.dirty_ THEN [recalculateDrawPoints(s) EXCEPT !.dirty_ = FALSE] ELSE s

\* moveTo as it would be were the translation accumulated
moveTo_Additive(s, newPos) ==
    [s EXCEPT !.translation_ = VecAdd(s.translation_, VecSub(newPos, s.originalCentroid_)),
              !.dirty_ = TRUE]

moveTo(s, newPos) ==
    [s EXCEPT !.translation_ = VecSub(newPos, s.originalCentroid_),
              !.dirty_ = TRUE]

\* rotate as it would be without "dirty_ = true"
rotate_NoDirty(s, angleDegrees) ==
    LET sum == s.rotation_ + angleDegrees
    IN  [s EXCEPT !.rotation_ = IF sum > 360 THEN sum - 360
                                ELSE IF sum < -360 THEN sum + 360
                                ELSE sum]

\* rotate as it would be without the normalisation
rotate_NoWrap(s, angleDegrees) ==
    [s EXCEPT !.rotation_ = s.rotation_ + angleDegrees, !.dirty_ = TRUE]

\* rotate as it would be were the angle clamped instead of wrapped
rotate_Clamp(s, angleDegrees) ==
    LET sum == s.rotation_ + angleDegrees
    IN  [s EXCEPT !.rotation_ = IF sum > 360 THEN 360
                                ELSE IF sum < -360 THEN -360
                                ELSE sum,
                  !.dirty_ = TRUE]

rotate(s, angleDegrees) ==
    LET sum == s.rotation_ + angleDegrees
    IN  [s EXCEPT !.rotation_ = IF sum > 360 THEN sum - 360
                                ELSE IF sum < -360 THEN sum + 360
                                ELSE sum,
                  !.dirty_ = TRUE]

getRotation(s) == s.rotation_

\* setColor as it would be without the "color_ == olc::BLANK" branch
setColor_AlwaysFill(s, newColor) ==
    [s EXCEPT !.color_ = newColor, !.fill_ = TRUE]

setColor(s, newColor) ==
    [s EXCEPT !.color_ = newColor, !.fill_ = (newColor # BLANK)]

\* snapPointsOf as it would be without the "% size()" on the edge's end
snapPointsOf_NoWrap(drawPoints) ==
    LET n == Len(drawPoints)
    IN  [k \in 1..(2 * n) |->
            IF k <= n THEN drawPoints[k]
            ELSE LET i == k - n
                     j == IF i = n THEN n ELSE i + 1
                 IN  [x |-> (drawPoints[i].x + drawPoints[j].x) \div 2,
                      y |-> (drawPoints[i].y + drawPoints[j].y) \div 2]]

\* vertices followed by the midpoints of the edges, of a refreshed shape
snapPointsOf(drawPoints) ==
    LET n == Len(drawPoints)
    IN  [k \in 1..(2 * n) |->
            IF k <= n THEN drawPoints[k]
            ELSE LET i == k - n
                     j == (i % n) + 1
                 IN  [x |-> (drawPoints[i].x + drawPoints[j].x) \div 2,
                      y |-> (drawPoints[i].y + drawPoints[j].y) \div 2]]

\* does the edge from a to b cross the ray from point to the right
EdgeCrosses(a, b, point) ==
    /\ (a.y > point.y) # (b.y > point.y)
    /\ LET d == b.y - a.y
           lhs == (point.x - a.x) * d
           rhs == (b.x - a.x) * (point.y - a.y)
       IN  IF d > 0 THEN lhs < rhs ELSE lhs > rhs

\* the parity test against a list of vertices
ParityInside(points, point) ==
    LET n == Len(points)
        crossing == {i \in 1..n : EdgeCrosses(points[i], points[(i % n) + 1], point)}
    IN  Cardinality(crossing) % 2 = 1

\* isInside is const: it reads drawPoints_ as they are
isInside(s, point) == ParityInside(s.drawPoints_, point)

getCentroid(s) ==
    LET r == Refreshed(s)
    IN  [self |-> r, value |-> r.drawCentroid_]

snapPoints(s) ==
    LET r == Refreshed(s)
    IN  [self |-> r, value |-> snapPointsOf(r.drawPoints_)]

\* draw: what is rendered; the fill pass runs only "if (fill_)", the outline always
draw(s) ==
    LET r == Refreshed(s)
        n == Len(r.drawPoints_)
    IN  [self |-> r,
         value |-> [filled        |-> r.fill_,
                    fillColor     |-> r.color_,
                    fillTriangles |-> IF r.fill_
                                      THEN [i \in 1..(n - 1) |->
                                              <<r.drawPoints_[1], r.drawPoints_[i],
                                                r.drawPoints_[i + 1]>>]
                                      ELSE <<>>,
                    outline       |-> r.drawPoints_]]

(***************************************************************************)
(* Shape generators of the application (tess.cpp)                          *)
(***************************************************************************)

\* SIDE_LENGTH = 30.0f
SIDE_LENGTH == 30 * TicksPerUnit

\* (sqrt(3) / 2) * SIDE_LENGTH = 25.98 units, in ticks
TriangleHeight == 5196

TrianglePoints(position) ==
    <<VecAdd(position, Vec(0, -RoundHalfAway(2 * TriangleHeight, 3))),
      VecAdd(position, Vec(-(SIDE_LENGTH \div 2), RoundHalfAway(TriangleHeight, 3))),
      VecAdd(position, Vec(SIDE_LENGTH \div 2, RoundHalfAway(TriangleHeight, 3)))>>

CreateNewTriangle(position) == TessShape(TrianglePoints(position))

SquarePoints(position) ==
    LET halfSide == SIDE_LENGTH \div 2
    IN  <<VecAdd(position, Vec(-halfSide, -halfSide)),
          VecAdd(position, Vec(halfSide, -halfSide)),
          VecAdd(position, Vec(halfSide, halfSide)),
          VecAdd(position, Vec(-halfSide, halfSide))>>

CreateNewSquare(position) == TessShape(SquarePoints(position))

\* vertex i of the hexagon is position + (cos(60 i), sin(60 i)) * sideLength
HexagonPoints(position) ==
    [k \in 1..6 |->
        VecAdd(position,
               Vec(RoundHalfAway(Cos(60 * (k - 1)) * SIDE_LENGTH, TRIG_SCALE),
                   RoundHalfAway(Sin(60 * (k - 1)) * SIDE_LENGTH, TRIG_SCALE)))]

CreateNewHexagon(position) == TessShape(HexagonPoints(position))

IsoQuadPoints(position) ==
    LET height   == RoundHalfAway(SIDE_LENGTH * Sin(75), TRIG_SCALE)
        halfBase == RoundHalfAway(SIDE_LENGTH * Cos(75), TRIG_SCALE)
    IN  <<VecAdd(position, Vec(-halfBase, 0)),
          VecAdd(position, Vec(0, -height)),
          VecAdd(position, Vec(halfBase, 0)),
          VecAdd(position, Vec(0, height))>>

CreateNewIsoQuad(position) == TessShape(IsoQuadPoints(position))

(***************************************************************************)
(* The snap-pair search (tess.cpp)                                         *)
(***************************************************************************)

\* SNAP_DIST_MAX = 5.0f
SNAP_DIST_MAX == 5 * TicksPerUnit

\* struct SnapPair
SnapPair(currentPoint, closestPoint) ==
    [bestCurrentPoint |-> currentPoint,
     bestClosestPoint |-> closestPoint,
     distance         |-> Mag(VecSub(currentPoint, closestPoint))]

\* PairsWithin as it would be with "distance <= SNAP_DIST_MAX"
PairsWithin_Inclusive(currentSnapPoints, closestSnapPoints) ==
    LET na == Len(currentSnapPoints)
        nb == Len(closestSnapPoints)
        all == [k \in 1..(na * nb) |->
                   <<currentSnapPoints[((k - 1) \div nb) + 1],
                     closestSnapPoints[((k - 1) % nb) + 1]>>]
        Near(pr) == LET d == VecSub(pr[1], pr[2])
                    IN  /\ Abs(d.x) <= SNAP_DIST_MAX
                        /\ Abs(d.y) <= SNAP_DIST_MAX
                        /\ d.x * d.x + d.y * d.y <= SNAP_DIST_MAX * SNAP_DIST_MAX
        near == SelectSeq(all, Near)
    IN  [k \in 1..Len(near) |-> SnapPair(near[k][1], near[k][2])]

\* the two nested loops: every pair in loop order, kept when its distance is
\* below SNAP_DIST_MAX.  The test is made on the squares (the distance is
\* below SNAP_DIST_MAX exactly when its square is below the square of
\* SNAP_DIST_MAX, which needs both components below SNAP_DIST_MAX) and the
\* root is taken of the pairs kept.
PairsWithin(currentSnapPoints, closestSnapPoints) ==
    LET na == Len(currentSnapPoints)
        nb == Len(closestSnapPoints)
        all == [k \in 1..(na * nb) |->
                   <<currentSnapPoints[((k - 1) \div nb) + 1],
                     closestSnapPoints[((k - 1) % nb) + 1]>>]
        Near(pr) == LET d == VecSub(pr[1], pr[2])
                    IN  /\ Abs(d.x) < SNAP_DIST_MAX
                        /\ Abs(d.y) < SNAP_DIST_MAX
                        /\ d.x * d.x + d.y * d.y < SNAP_DIST_MAX * SNAP_DIST_MAX
        near == SelectSeq(all, Near)
    IN  [k \in 1..Len(near) |-> SnapPair(near[k][1], near[k][2])]

\* FindClosestSnapPoints: the pairs, and the two shapes as snapPoints() leaves them
FindClosestSnapPoints(pCurrentShape, pClosestShape) ==
    IF pCurrentShape = Null \/ pClosestShape = Null
    THEN [current |-> pCurrentShape, closest |-> pClosestShape, pairs |-> <<>>]
    ELSE [current |-> snapPoints(pCurrentShape).self,
          closest |-> snapPoints(pClosestShape).self,
          pairs   |-> PairsWithin(snapPoints(pCurrentShape).value,
                                  snapPoints(pClosestShape).value)]

(***************************************************************************)
(* Inputs of the calls                                                     *)
(***************************************************************************)

\* point lists handed to the constructor: the generators' polygons and two
\* lists with fewer than 3 points
PointLists ==
    {TrianglePoints(Vec(0, 0)), SquarePoints(Vec(0, 0)),
     <<Cent(0, 0), Cent(1000, 0)>>, <<Cent(500, 500)>>}

\* the rotation step of the keys and the mouse wheel is 15 degrees
ROTATION_STEP == 15

\* rotate in the general specification: up to MaxTurns steps either way
MaxTurns == 3

\* targets of moveTo: index k is the point (k * 30.005, -k * 10.005)
MaxTarget == 2

MoveTarget(k) == Vec(k * 6001, -(k * 2001))

MoveTargets == {MoveTarget(k) : k \in 0..MaxTarget}

\* points tested by isInside
TestPoints == {Vec(0, 0), MoveTarget(1)}

Colors == {BLANK, "RED", "BLACK"}

(***************************************************************************)
(* The calls on one shape                                                  *)
(***************************************************************************)

NoValue == Null

Construct(points) ==
    /\ shape = Null
    /\ shape' = TessShape(points)
    /\ ret' = [op |-> "construct", val |-> NoValue]
    /\ lastTarget' = Null
    /\ UNCHANGED <<closest, snapPairs, hist, app, frame>>

MoveTo(newPos) ==
    /\ shape # Null
    /\ shape' = moveTo(shape, newPos)
    /\ ret' = [op |-> "moveTo", val |-> NoValue]
    /\ lastTarget' = newPos
    /\ UNCHANGED <<closest, snapPairs, hist, app, frame>>

Rotate(angleDegrees) ==
    /\ shape # Null
    /\ shape' = rotate(shape, angleDegrees)
    /\ ret' = [op |-> "rotate", val |-> NoValue]
    /\ UNCHANGED <<closest, snapPairs, lastTarget, hist, app, frame>>

GetRotation ==
    /\ shape # Null
    /\ ret' = [op |-> "getRotation", val |-> getRotation(shape)]
    /\ UNCHANGED <<shape, closest, snapPairs, lastTarget, hist, app, frame>>

GetCentroid ==
    /\ shape # Null
    /\ \E result \in {getCentroid(shape)} :
           /\ shape' = result.self
           /\ ret' = [op |-> "getCentroid", val |-> result.value]
    /\ UNCHANGED <<closest, snapPairs, lastTarget, hist, app, frame>>

SnapPoints ==
    /\ shape # Null
    /\ \E result \in {snapPoints(shape)} :
           /\ shape' = result.self
           /\ ret' = [op |-> "snapPoints", val |-> result.value]
    /\ UNCHANGED <<closest, snapPairs, lastTarget, hist, app, frame>>

Draw ==
    /\ shape # Null
    /\ \E result \in {draw(shape)} :
           /\ shape' = result.self
           /\ ret' = [op |-> "draw", val |-> result.value]
    /\ UNCHANGED <<closest, snapPairs, lastTarget, hist, app, frame>>

SetColor(newColor) ==
    /\ shape # Null
    /\ shape' = setColor(shape, newColor)
    /\ ret' = [op |-> "setColor", val |-> NoValue]
    /\ UNCHANGED <<closest, snapPairs, lastTarget, hist, app, frame>>

IsInside(point) ==
    /\ shape # Null
    /\ ret' = [op |-> "isInside", val |-> [point |-> point, inside |-> isInside(shape, point)]]
    /\ UNCHANGED <<shape, closest, snapPairs, lastTarget, hist, app, frame>>

Init ==
    /\ shape = Null
    /\ closest = Null
    /\ ret = [op |-> "none", val |-> NoValue]
    /\ snapPairs = <<>>
    /\ lastTarget = Null
    /\ hist = <<>>
    /\ app = Null
    /\ frame = Null

\* key / wheel rotation, kept within MaxTurns steps of the start
RotateStep ==
    \E a \in {-ROTATION_STEP, ROTATION_STEP} :
        /\ shape # Null
        /\ Abs(shape.rotation_ + a) <= MaxTurns * ROTATION_STEP
        /\ Rotate(a)

Next ==
    \/ \E points \in PointLists : Construct(points)
    \/ \E newPos \in MoveTargets : MoveTo(newPos)
    \/ RotateStep
    \/ GetRotation
    \/ GetCentroid
    \/ SnapPoints
    \/ Draw
    \/ \E newColor \in Colors : SetColor(newColor)
    \/ \E point \in TestPoints : IsInside(point)

Spec == Init /\ [][Next]_vars

(***************************************************************************)
(* Rotation alone: rotate with arguments beyond one turn, each call logged *)
(***************************************************************************)

\* arguments of rotate: the steps of the application, angles just beyond one
\* full turn either way, and one beyond two full turns
RotateArgs == {-370, -15, -10, 10, 15, 370, 730}

\* rotate is followed while |rotation_| stays within 360 + 5 * MaxOvershoot
MaxOvershoot == 8

\* what vertices() returns: the draw points of a refreshed shape
vertices(s) == draw(s).value.outline

\* rotate, with the call appended to the log of the last two rotate calls
RotateLogged(angleDegrees) ==
    /\ shape # Null
    /\ Abs(rotate(shape, angleDegrees).rotation_) <= 360 + 5 * MaxOvershoot
    /\ shape' = rotate(shape, angleDegrees)
    /\ ret' = [op |-> "rotate", val |-> NoValue]
    /\ hist' = (IF Len(hist) < 2 THEN hist ELSE Tail(hist))
               \o <<[arg      |-> angleDegrees,
                     rotation |-> shape.rotation_,
                     vertices |-> vertices(shape)]>>
    /\ UNCHANGED <<closest, snapPairs, lastTarget, app, frame>>

\* moveTo between rotations; the log starts again
MoveToLogged(newPos) ==
    /\ shape # Null
    /\ hist # <<>>
    /\ shape' = moveTo(shape, newPos)
    /\ ret' = [op |-> "moveTo", val |-> NoValue]
    /\ lastTarget' = newPos
    /\ hist' = <<>>
    /\ UNCHANGED <<closest, snapPairs, app, frame>>

ConstructPolygon ==
    \E points \in {TrianglePoints(Vec(0, 0)), SquarePoints(Cent(1000, 1000))} :
        Construct(points)

NextRotate ==
    \/ ConstructPolygon
    \/ \E angleDegrees \in RotateArgs : RotateLogged(angleDegrees)
    \/ \E newPos \in MoveTargets : MoveToLogged(newPos)

SpecRotate == Init /\ [][NextRotate]_vars

(***************************************************************************)
(* The snap-pair search on a current shape and a placed neighbour          *)
(***************************************************************************)

\* a shape of the application, created at the origin, turned and moved
Placed(s, angleDegrees, newPos) == moveTo(rotate(s, angleDegrees), newPos)

\* current shapes: none, a square, a triangle
SnapCurrent ==
    {Null, CreateNewSquare(Vec(0, 0)), CreateNewTriangle(Vec(0, 0))}

\* neighbours: none, or a square (upright or turned by 45) whose centroid is
\* 30, 34, 35 or 100 units to the right of the origin
SnapClosest ==
    {Null} \cup
    {Placed(CreateNewSquare(Vec(0, 0)), a, Cent(cx, 0)) :
        a \in {0, 45}, cx \in {3000, 3400, 3500, 10000}}

InitSnap ==
    /\ shape \in SnapCurrent
    /\ closest \in SnapClosest
    /\ ret = [op |-> "none", val |-> NoValue]
    /\ snapPairs = <<>>
    /\ lastTarget = Null
    /\ hist = <<>>
    /\ app = Null
    /\ frame = Null

FindSnap ==
    \E found \in {FindClosestSnapPoints(shape, closest)} :
        /\ shape' = found.current
        /\ closest' = found.closest
        /\ snapPairs' = found.pairs
        /\ ret' = [op |-> "FindClosestSnapPoints", val |-> NoValue]
        /\ UNCHANGED <<lastTarget, hist, app, frame>>

NextSnap ==
    \/ FindSnap
    \/ \E newPos \in MoveTargets : MoveTo(newPos)
    \/ RotateStep

SpecSnap == InitSnap /\ [][NextSnap]_vars

(***************************************************************************)
(* class Tess: the application around the shapes (tess.cpp)                *)
(*                                                                         *)
(* State of the application, the record app:                               *)
(*   upShapes_          the placed shapes, in placement order              *)
(*   upCurrentShape_    the shape being placed                             *)
(*   pClosestShape_     a raw pointer into upShapes_: Null, [slot |-> i]   *)
(*                      while it points to the live object upShapes_[i],   *)
(*                      or [freed |-> s, reused |-> b] once pop_back has   *)
(*                      destroyed the object it points to: s is what the   *)
(*                      object held, b tells whether a TessShape has been  *)
(*                      allocated since (which may have taken its address) *)
(*   closestDist_, snapPair_, currentShapeType_, lastRotation_,            *)
(*   currentTool_, currentColorIndex_   as in the class                    *)
(*   crashed            the process has died in a use of freed memory      *)
(* timeSinceLastRotation_ and the view tv_ are in the inputs of a frame:   *)
(* key says which of ',' and '.' is held with the interval elapsed, vMouse *)
(* is the mouse position in world coordinates.                             *)
(***************************************************************************)

\* the inputs of a frame in which nothing is pressed: the mouse position, 'T',
\* the rotation key, SPACE, the wheel, the right and the left mouse button
NoInput(vMouse) ==
    [vMouse |-> vMouse, keyT |-> FALSE, key |-> "none", space |-> FALSE,
     wheel |-> 0, right |-> FALSE, left |-> FALSE]

\* enum class ShapeType, in the order the SPACE key cycles through
ShapeTypes == <<"Triangle", "Square", "Hexagon", "IsoQuad">>

\* the switch on currentShapeType_ that creates the new current shape
CreateNew(type, position) ==
    CASE type = "Triangle" -> CreateNewTriangle(position)
      [] type = "Square"   -> CreateNewSquare(position)
      [] type = "Hexagon"  -> CreateNewHexagon(position)
      [] type = "IsoQuad"  -> CreateNewIsoQuad(position)

\* the type the SPACE key switches to
NextShapeType(type) ==
    CASE type = "Triangle" -> "Square"
      [] type = "Square"   -> "Hexagon"
      [] type = "Hexagon"  -> "IsoQuad"
      [] type = "IsoQuad"  -> "Triangle"

\* colors_
colors_ == <<"RED", "GREEN", "BLUE", "YELLOW", "CYAN", "MAGENTA", "WHITE", "BLACK">>

\* closestDist_ = { 100000.0f, 100000.0f }
LargeDist == Vec(100000 * TicksPerUnit, 100000 * TicksPerUnit)

\* snapPair_ = { {0,0}, {0,0}, 100000.0f }
NoSnapPair ==
    [bestCurrentPoint |-> Vec(0, 0),
     bestClosestPoint |-> Vec(0, 0),
     distance         |-> 100000 * TicksPerUnit]

\* the pointer points to a live element of upShapes_
IsLive(p) == "slot" \in DOMAIN p

\* the pointer points to an object that pop_back has destroyed
IsDangling(p) == "freed" \in DOMAIN p

\* the square of the length of v, as <<h, l>> standing for h * 2^26 + l with
\* l < 2^26: exact for components below 2^26 ticks, where the plain square
\* does not fit the integers of the model
SqLenWide(v) ==
    LET B    == 8192
        xh   == Abs(v.x) \div B
        xl   == Abs(v.x) % B
        yh   == Abs(v.y) \div B
        yl   == Abs(v.y) % B
        mid  == 2 * xh * xl + 2 * yh * yl
        low  == xl * xl + yl * yl + (mid % B) * B
        high == xh * xh + yh * yh + (mid \div B) + (low \div (B * B))
    IN  <<high, low % (B * B)>>

\* u.mag() < v.mag(), compared on the squares
MagLess(u, v) ==
    LET su == SqLenWide(u)
        sv == SqLenWide(v)
    IN  su[1] < sv[1] \/ (su[1] = sv[1] /\ su[2] < sv[2])

\* upCurrentShape_ = std::make_unique<TessShape>(...): a new object; if the
\* closest-shape pointer dangles, the new object may have taken the address
SetCurrent(a, s) ==
    [a EXCEPT !.upCurrentShape_ = s,
              !.pClosestShape_ = IF IsDangling(@) THEN [@ EXCEPT !.reused = TRUE]
                                 ELSE @]

\* pop_back as it would be were the whole collection cleared
pop_back_Clear(a) ==
    [a EXCEPT !.upShapes_ = <<>>,
              !.pClosestShape_ =
                  IF IsLive(@)
                  THEN [freed |-> a.upShapes_[@.slot], reused |-> FALSE]
                  ELSE @]

\* upShapes_.pop_back(): the last unique_ptr goes and with it its object; a
\* pointer to that object dangles from here on
pop_back(a) ==
    LET n == Len(a.upShapes_)
    IN  [a EXCEPT !.upShapes_ = SubSeq(a.upShapes_, 1, n - 1),
                  !.pClosestShape_ =
                      IF IsLive(@) /\ @.slot = n
                      THEN [freed |-> a.upShapes_[n], reused |-> FALSE]
                      ELSE @]

\* the rotation keys: ',' turns by -15; '.' turns by 15 unless ',' has just
\* reset the timer
KeyRotate(a, in) ==
    IF in.key = "comma"
    THEN [a EXCEPT !.upCurrentShape_ = rotate(@, -ROTATION_STEP)]
    ELSE IF in.key = "period"
    THEN [a EXCEPT !.upCurrentShape_ = rotate(@, ROTATION_STEP)]
    ELSE a

\* SPACE: the next shape type, created where the current shape is
KeySpace(a, in) ==
    IF in.space
    THEN SetCurrent([a EXCEPT !.currentShapeType_ = NextShapeType(@)],
                    CreateNew(NextShapeType(a.currentShapeType_),
                              getCentroid(a.upCurrentShape_).value))
    ELSE a

\* the mouse wheel as it would be were the last placed shape turned along
\* with the current one
WheelRotate_Placed(a, in) ==
    LET n    == Len(a.upShapes_)
        step == IF in.wheel > 0 THEN -ROTATION_STEP
                ELSE IF in.wheel < 0 THEN ROTATION_STEP
                ELSE 0
    IN  IF step = 0 THEN a
        ELSE IF n = 0 THEN [a EXCEPT !.upCurrentShape_ = rotate(@, step)]
        ELSE [a EXCEPT !.upCurrentShape_ = rotate(@, step),
                       !.upShapes_[n] = rotate(@, step)]

\* the mouse wheel: up turns by -15, down by 15
WheelRotate(a, in) ==
    IF in.wheel > 0
    THEN [a EXCEPT !.upCurrentShape_ = rotate(@, -ROTATION_STEP)]
    ELSE IF in.wheel < 0
    THEN [a EXCEPT !.upCurrentShape_ = rotate(@, ROTATION_STEP)]
    ELSE a

\* right click: undo
Undo(a, in) ==
    IF in.right /\ a.upShapes_ # <<>> THEN pop_back(a) ELSE a

\* the current shape follows the mouse
FollowMouse(a, in) ==
    IF a.upCurrentShape_ # Null
    THEN [a EXCEPT !.upCurrentShape_ = moveTo(@, in.vMouse)]
    ELSE a

ToolPlaceShapeUpdatePre(a, in) ==
    FollowMouse(Undo(WheelRotate(KeySpace(KeyRotate(a, in), in), in), in), in)

\* currentColorIndex_ one back / one on, modulo colors_.size()
ColorBack(a) ==
    [a EXCEPT !.currentColorIndex_ = (@ - 1 + Len(colors_)) % Len(colors_)]

ColorOn(a) ==
    [a EXCEPT !.currentColorIndex_ = (@ + 1) % Len(colors_)]

ToolFillUpdatePre(a, in) ==
    LET keyed == IF in.key = "comma" THEN ColorBack(a)
                 ELSE IF in.key = "period" THEN ColorOn(a)
                 ELSE a
    IN  IF in.wheel > 0 THEN ColorBack(keyed)
        ELSE IF in.wheel < 0 THEN ColorOn(keyed)
        ELSE keyed

RECURSIVE ScanFrom(_, _, _)
\* the loop over upShapes_ from element i on: draw, then the distance of the
\* centroid to the mouse, kept when it is below the closest so far
ScanFrom(a, vMouse, i) ==
    LET Taken(drawn, dist) ==
            IF MagLess(dist, a.closestDist_)
            THEN [a EXCEPT !.upShapes_[i] = drawn.self,
                           !.closestDist_ = dist,
                           !.pClosestShape_ = [slot |-> i]]
            ELSE [a EXCEPT !.upShapes_[i] = drawn.self]
        Drawn(drawn) == Taken(drawn, VecSub(vMouse, drawn.value))
    IN  IF i > Len(a.upShapes_) THEN a
        ELSE ScanFrom(Drawn(getCentroid(draw(a.upShapes_[i]).self)),
                      vMouse, i + 1)

\* "Draw the shapes" of OnUserUpdate: closestDist_ is reset, pClosestShape_ is not
DrawShapes(a, vMouse) ==
    ScanFrom([a EXCEPT !.closestDist_ = LargeDist], vMouse, 1)

\* the left click of the PlaceShape tool as it would be were the new shape
\* turned by the member lastRotation_, which the local of the same name hides
PlaceClick_MemberRotation(a, vMouse) ==
    LET cur     == a.upCurrentShape_
        c       == getCentroid(cur)
        snapped == IF a.snapPair_.distance < SNAP_DIST_MAX
                   THEN moveTo(c.self,
                               VecAdd(c.value,
                                      VecSub(a.snapPair_.bestClosestPoint,
                                             a.snapPair_.bestCurrentPoint)))
                   ELSE cur
        pushed  == [a EXCEPT !.upShapes_ = Append(@, snapped)]
        created == SetCurrent(pushed, CreateNew(a.currentShapeType_, vMouse))
    IN  [created EXCEPT !.upCurrentShape_ = rotate(@, a.lastRotation_)]

\* the left click of the PlaceShape tool: snap by the stored snapPair_ if its
\* distance is below SNAP_DIST_MAX, push the current shape, create the next
\* one at the mouse and give it the rotation of the one placed
PlaceClick(a, vMouse) ==
    LET cur          == a.upCurrentShape_
        lastRotation == getRotation(cur)
        c            == getCentroid(cur)
        snapped      == IF a.snapPair_.distance < SNAP_DIST_MAX
                        THEN moveTo(c.self,
                                    VecAdd(c.value,
                                           VecSub(a.snapPair_.bestClosestPoint,
                                                  a.snapPair_.bestCurrentPoint)))
                        ELSE cur
        pushed       == [a EXCEPT !.upShapes_ = Append(@, snapped)]
        created      == SetCurrent(pushed, CreateNew(a.currentShapeType_, vMouse))
    IN  [created EXCEPT !.upCurrentShape_ = rotate(@, lastRotation)]

RECURSIVE BestFrom(_, _, _, _)
\* the loop over the snap pairs from pair i on: a pair below minDistance
\* becomes snapPair_
BestFrom(pairs, i, minDistance, snapPair) ==
    IF i > Len(pairs) THEN snapPair
    ELSE IF pairs[i].distance < minDistance
    THEN BestFrom(pairs, i + 1, pairs[i].distance, pairs[i])
    ELSE BestFrom(pairs, i + 1, minDistance, snapPair)

\* snapPair_ after the loop: unchanged when there are no pairs
SelectSnapPair(pairs, snapPair) ==
    BestFrom(pairs, 1, NoSnapPair.distance, snapPair)

\* what a use of the dangling pointer can do: read the destroyed object's
\* bytes as they were ("stale"), reach the object since allocated at its
\* address, the current shape ("reused"), or end the process ("crash")
UBOutcomes == {"stale", "reused", "crash"}

\* is the outcome ub possible for the pointer p
UBPossible(p, ub) == ub \in {"stale", "crash"} \/ (ub = "reused" /\ p.reused)

\* "Draw the snap points of the closest triangle": the search between the
\* current shape and *pClosestShape_, and the choice of snapPair_
SnapSearch(a, ub) ==
    LET p == a.pClosestShape_
        Searched(found) ==
            IF IsLive(p)
            THEN [app |-> [a EXCEPT !.upCurrentShape_ = found.current,
                                    !.upShapes_[p.slot] = found.closest,
                                    !.snapPair_ = SelectSnapPair(found.pairs, @)],
                  deref |-> "live"]
            ELSE IF ub = "reused"
            THEN [app |-> [a EXCEPT !.upCurrentShape_ = found.current,
                                    !.snapPair_ = SelectSnapPair(found.pairs, @)],
                  deref |-> "dangling"]
            ELSE [app |-> [a EXCEPT !.upCurrentShape_ = found.current,
                                    !.pClosestShape_.freed = found.closest,
                                    !.snapPair_ = SelectSnapPair(found.pairs, @)],
                  deref |-> "dangling"]
    IN  IF a.upCurrentShape_ = Null \/ p = Null
        THEN [app |-> a, deref |-> "none"]
        ELSE IF IsDangling(p) /\ ub = "crash"
        THEN [app |-> [a EXCEPT !.crashed = TRUE], deref |-> "dangling"]
        ELSE Searched(FindClosestSnapPoints(
                          a.upCurrentShape_,
                          IF IsLive(p) THEN a.upShapes_[p.slot]
                          ELSE IF ub = "reused" THEN a.upCurrentShape_
                          ELSE p.freed))

\* "Draw the current triangle"
DrawCurrent(a) ==
    IF a.upCurrentShape_ # Null
    THEN [a EXCEPT !.upCurrentShape_ = draw(@).self]
    ELSE a

ToolPlaceShapeUpdatePost(a, in, ub) ==
    SnapSearch(DrawCurrent(IF in.left THEN PlaceClick(a, in.vMouse) ELSE a), ub)

\* the left click of the FillShape tool: colour *pClosestShape_ if the mouse
\* is inside it
ToolFillUpdatePost(a, in, ub) ==
    LET p     == a.pClosestShape_
        color == colors_[a.currentColorIndex_ + 1]
    IN  IF ~in.left \/ p = Null
        THEN [app |-> a, deref |-> "none"]
        ELSE IF IsLive(p)
        THEN [app |-> IF isInside(a.upShapes_[p.slot], in.vMouse)
                      THEN [a EXCEPT !.upShapes_[p.slot] = setColor(@, color)]
                      ELSE a,
              deref |-> "live"]
        ELSE IF ub = "crash"
        THEN [app |-> [a EXCEPT !.crashed = TRUE], deref |-> "dangling"]
        ELSE IF ub = "reused"
        THEN [app |-> IF isInside(a.upCurrentShape_, in.vMouse)
                      THEN [a EXCEPT !.upCurrentShape_ = setColor(@, color)]
                      ELSE a,
              deref |-> "dangling"]
        ELSE [app |-> IF isInside(p.freed, in.vMouse)
                      THEN [a EXCEPT !.pClosestShape_.freed = setColor(@, color)]
                      ELSE a,
              deref |-> "dangling"]

\* 'T' switches the tool
SwitchTool(a, in) ==
    IF in.keyT
    THEN [a EXCEPT !.currentTool_ = IF @ = "PlaceShape" THEN "FillShape"
                                    ELSE "PlaceShape"]
    ELSE a

\* one frame up to and including the scan of the placed shapes
FrameToScan(a, in) ==
    LET Pre(switched) ==
            IF switched.currentTool_ = "PlaceShape"
            THEN ToolPlaceShapeUpdatePre(switched, in)
            ELSE ToolFillUpdatePre(switched, in)
    IN  DrawShapes(Pre(SwitchTool(a, in)), in.vMouse)

\* one frame: the application after it, the state after the scan, and what
\* the frame did with pClosestShape_
OnUserUpdate(a, in, ub) ==
    LET Result(scanned, post) ==
            [app |-> post.app, scanned |-> scanned, deref |-> post.deref]
        Post(scanned) ==
            Result(scanned,
                   IF scanned.currentTool_ = "PlaceShape"
                   THEN ToolPlaceShapeUpdatePost(scanned, in, ub)
                   ELSE ToolFillUpdatePost(scanned, in, ub))
    IN  Post(FrameToScan(a, in))

\* the application after OnUserCreate
OnUserCreate ==
    [upShapes_          |-> <<>>,
     upCurrentShape_    |-> CreateNewTriangle(Vec(0, 0)),
     pClosestShape_     |-> Null,
     closestDist_       |-> LargeDist,
     snapPair_          |-> NoSnapPair,
     currentShapeType_  |-> "Triangle",
     lastRotation_      |-> 0,
     currentTool_       |-> "PlaceShape",
     currentColorIndex_ |-> 0,
     crashed            |-> FALSE]

(***************************************************************************)
(* The frames of the application                                           *)
(***************************************************************************)

\* the application is followed for MaxFrames frames
MaxFrames == 4

\* at most MaxPlaced shapes are placed at a time
MaxPlaced == 2

\* the current shape is turned at most MaxAppTurns steps either way
MaxAppTurns == 1

\* SPACE is followed through the first MaxTypeIndex + 1 shape types
MaxTypeIndex == 1

\* the palette index is followed from 0 up to MaxColorIndex
MaxColorIndex == 0

\* mouse positions: (0,0); (32,0), where a square is 2 units off a square
\* placed at (0,0); (80,40), far from both
MousePositions == {Cent(0, 0), Cent(3200, 0), Cent(8000, 4000)}

\* a mouse position 150000 units away, as the zoomed-out view gives: farther
\* than the length of closestDist_'s initial value from every placed shape.
\* The mouse only passes there: nothing is pressed while it is there.
FarMouse == Vec(0, 150000 * TicksPerUnit)

\* the position of a shape type in the cycle of the SPACE key, from 0
TypeIndex(type) == (CHOOSE k \in 1..Len(ShapeTypes) : ShapeTypes[k] = type) - 1

\* what one call of OnUserUpdate can lead to: one outcome, or, when the frame
\* uses a dangling pClosestShape_, each outcome that use can have
FrameOutcomes(a, in) ==
    LET Outcomes(r) ==
            IF r.deref # "dangling" THEN {r}
            ELSE {OnUserUpdate(a, in, ub) :
                     ub \in {o \in UBOutcomes :
                                UBPossible(r.app.pClosestShape_, o)}}
    IN  Outcomes(OnUserUpdate(a, in, "stale"))

\* what is kept of a frame: its number, the numbers of placing left clicks
\* and of removing right clicks so far, its inputs, the tool it ran, the
\* placed shapes and the snapPair_ before it, pClosestShape_ after its scan,
\* the use it made of that pointer
FrameLog(a, in, result) ==
    [n            |-> frame.n + 1,
     placements   |-> frame.placements +
                      (IF result.scanned.currentTool_ = "PlaceShape" /\ in.left
                       THEN 1 ELSE 0),
     undos        |-> frame.undos +
                      (IF result.scanned.currentTool_ = "PlaceShape" /\ in.right
                          /\ a.upShapes_ # <<>>
                       THEN 1 ELSE 0),
     in           |-> in,
     tool         |-> result.scanned.currentTool_,
     placedBefore |-> a.upShapes_,
     snapPair     |-> a.snapPair_,
     nearest      |-> result.scanned.pClosestShape_,
     deref        |-> result.deref]

\* one call of OnUserUpdate
Frame(in) ==
    /\ ~app.crashed
    /\ frame.n < MaxFrames
    /\ (in.vMouse = FarMouse) =>
           (~in.keyT /\ in.key = "none" /\ ~in.space /\ in.wheel = 0
            /\ ~in.right /\ ~in.left)
    /\ \E result \in FrameOutcomes(app, in) :
           /\ Len(result.app.upShapes_) <= MaxPlaced
           /\ Abs(result.app.upCurrentShape_.rotation_) <= MaxAppTurns * ROTATION_STEP
           /\ TypeIndex(result.app.currentShapeType_) <= MaxTypeIndex
           /\ result.app.currentColorIndex_ <= MaxColorIndex
           /\ app' = result.app
           /\ frame' = FrameLog(app, in, result)
    /\ UNCHANGED <<shape, closest, ret, snapPairs, lastTarget, hist>>

\* the mouse moves, nothing is pressed
FrameMove ==
    \E vMouse \in MousePositions \cup {FarMouse} : Frame(NoInput(vMouse))

FrameKey ==
    \E key \in {"comma", "period"} :
        Frame([NoInput(frame.in.vMouse) EXCEPT !.key = key])

FrameWheel ==
    \E wheel \in {-1, 1} :
        Frame([NoInput(frame.in.vMouse) EXCEPT !.wheel = wheel])

FrameSpace ==
    Frame([NoInput(frame.in.vMouse) EXCEPT !.space = TRUE])

FrameRightClick ==
    Frame([NoInput(frame.in.vMouse) EXCEPT !.right = TRUE])

\* a left click, with the mouse where it was or moved since the last frame
FrameLeftClick ==
    \E vMouse \in MousePositions : Frame([NoInput(vMouse) EXCEPT !.left = TRUE])

FrameBothClicks ==
    Frame([NoInput(frame.in.vMouse) EXCEPT !.right = TRUE, !.left = TRUE])

FrameSwitchTool ==
    Frame([NoInput(frame.in.vMouse) EXCEPT !.keyT = TRUE])

InitApp ==
    /\ shape = Null
    /\ closest = Null
    /\ ret = [op |-> "none", val |-> NoValue]
    /\ snapPairs = <<>>
    /\ lastTarget = Null
    /\ hist = <<>>
    /\ app = OnUserCreate
    /\ frame = [n            |-> 0,
                placements   |-> 0,
                undos        |-> 0,
                in           |-> NoInput(Vec(0, 0)),
                tool         |-> "PlaceShape",
                placedBefore |-> <<>>,
                snapPair     |-> NoSnapPair,
                nearest      |-> Null,
                deref        |-> "none"]

NextApp ==
    \/ FrameMove
    \/ FrameKey
    \/ FrameWheel
    \/ FrameSpace
    \/ FrameRightClick
    \/ FrameLeftClick
    \/ FrameBothClicks
    \/ FrameSwitchTool

SpecApp == InitApp /\ [][NextApp]_vars

\* the application after three frames with the mouse at (0,0): a left click
\* (a triangle is placed), a frame with nothing pressed (the scan points
\* pClosestShape_ at the triangle) and a right click (pop_back destroys the
\* triangle; the snap search of that frame uses the pointer).  Each result is
\* the application with what the frame did.
AfterUndo ==
    LET origin == Vec(0, 0)
        Third(a)  == FrameOutcomes(a, [NoInput(origin) EXCEPT !.right = TRUE])
        Second(a) == Third(OnUserUpdate(a, NoInput(origin), "stale").app)
    IN  Second(OnUserUpdate(OnUserCreate,
                            [NoInput(origin) EXCEPT !.left = TRUE],
                            "stale").app)

\* the frames that follow an undone placement: the application starts from
\* AfterUndo, and the frames are counted from there
InitAfterUndo ==
    /\ shape = Null
    /\ closest = Null
    /\ ret = [op |-> "none", val |-> NoValue]
    /\ snapPairs = <<>>
    /\ lastTarget = Null
    /\ hist = <<>>
    /\ \E result \in AfterUndo :
           /\ app = result.app
           /\ frame = [n            |-> 0,
                       placements   |-> 1,
                       undos        |-> 1,
                       in           |-> [NoInput(Vec(0, 0)) EXCEPT !.right = TRUE],
                       tool         |-> "PlaceShape",
                       placedBefore |-> <<>>,
                       snapPair     |-> NoSnapPair,
                       nearest      |-> result.scanned.pClosestShape_,
                       deref        |-> result.deref]

SpecAfterUndo == InitAfterUndo /\ [][NextApp]_vars

(***************************************************************************)
(* Properties                                                              *)
(***************************************************************************)

Range(seq) == {seq[i] : i \in 1..Len(seq)}

\* the square of the distance between two points
DistSq(a, b) == (a.x - b.x) * (a.x - b.x) + (a.y - b.y) * (a.y - b.y)

\* the vertex that the current rotation_ and translation_ give original point i
CurrentVertex(s, i) == TranslatePoint(s, RotatePoint(s, s.originalPoints_[i]))

\* C1: what getCentroid() and snapPoints() return is computed from the
\* rotation_ and translation_ the shape has at the call, never from earlier ones.
C1_AccessorsCurrent ==
    /\ ret.op = "getCentroid" =>
          ret.val = RoundPointCoordinates(
                        VecAdd(shape.originalCentroid_, shape.translation_), 1)
    /\ ret.op = "snapPoints" =>
          /\ Len(ret.val) >= Len(shape.originalPoints_)
          /\ \A i \in 1..Len(shape.originalPoints_) : ret.val[i] = CurrentVertex(shape, i)
          /\ ret.val = snapPointsOf(recalculateDrawPoints(shape).drawPoints_)

\* C1 witness: snapPoints() has returned for a triangle turned by 30 degrees
\* and moved to the second target
C1_Witness ==
    /\ ret.op = "snapPoints"
    /\ Len(shape.originalPoints_) = 3
    /\ shape.rotation_ = 2 * ROTATION_STEP
    /\ lastTarget = MoveTarget(1)

\* C2 (as claimed): isInside(p) answers the parity test of p against the
\* polygon at the current rotation_ and translation_, also when the shape is stale.
C2_IsInsideCurrent ==
    ret.op = "isInside" =>
        ret.val.inside =
            ParityInside(recalculateDrawPoints(shape).drawPoints_, ret.val.point)

\* C3 (as claimed): no shape with fewer than 3 original points exists.
C3_NoDegenerateShape ==
    shape # Null => Len(shape.originalPoints_) >= 3

\* C4 (as claimed): rotation_ is always in (-360, 360].
C4_RotationNormalized ==
    shape # Null => (shape.rotation_ > -360 /\ shape.rotation_ <= 360)

\* the rotation rotate(angleDegrees) leaves when called at rotation_ = before
RotationAfter(before, angleDegrees) ==
    rotate([shape EXCEPT !.rotation_ = before], angleDegrees).rotation_

\* the last logged rotate call
LastCall == hist[Len(hist)]

\* C5 (as claimed): rotate(370) leaves the rotation_ that rotate(10) would have
\* left from the same state, and 10 on a fresh shape.
C5_Rotate370Same ==
    (hist # <<>> /\ LastCall.arg = 370) =>
        /\ shape.rotation_ = RotationAfter(LastCall.rotation, 10)
        /\ LastCall.rotation = 0 => shape.rotation_ = 10

\* C5 (amended): rotate(370) leaves a rotation_ congruent modulo 360 to the
\* one rotate(10) would have left from the same state, and 10 on a fresh shape.
C5_Rotate370Congruent ==
    (hist # <<>> /\ LastCall.arg = 370) =>
        /\ (shape.rotation_ - RotationAfter(LastCall.rotation, 10)) % 360 = 0
        /\ LastCall.rotation = 0 => shape.rotation_ = 10

\* C5 witness: rotate(370) was called at rotation_ = -15 and left 355, where
\* rotate(10) leaves -5
C5_Witness ==
    /\ hist # <<>>
    /\ LastCall.arg = 370
    /\ LastCall.rotation = -15
    /\ shape.rotation_ = 355
    /\ RotationAfter(-15, 10) = -5

\* C6: after rotate(x) then rotate(-x) the rotation is the one before the two
\* calls modulo 360, and vertices() returns what it returned before them.
C6_RotateBackRestores ==
    (Len(hist) = 2 /\ hist[2].arg = -hist[1].arg) =>
        /\ (shape.rotation_ - hist[1].rotation) % 360 = 0
        /\ vertices(shape) = hist[1].vertices

\* C6 witness: rotate(370), rotate(-370) from 15 degrees ends at -345, a
\* different number for the same angle
C6_Witness ==
    /\ Len(hist) = 2
    /\ hist[1].arg = 370
    /\ hist[2].arg = -370
    /\ hist[1].rotation = 15
    /\ shape.rotation_ = -345
    /\ lastTarget # Null

\* C7: getCentroid() after moveTo(p) returns p rounded to 2 decimals, whatever
\* moveTo and rotate calls came before.
C7_MoveToAbsolute ==
    (ret.op = "getCentroid" /\ lastTarget # Null) =>
        ret.val = RoundPointCoordinates(lastTarget, 1)

\* C7 witness: getCentroid() has returned (30.01, -10.01) for a turned shape
\* whose last target was (30.005, -10.005)
C7_Witness ==
    /\ ret.op = "getCentroid"
    /\ lastTarget = MoveTarget(1)
    /\ ret.val = Cent(3001, -1001)
    /\ shape.rotation_ # 0

\* C8: snapPoints() of a shape of n points returns 2n points: the current
\* vertices in order, then for each i the midpoint of vertex i and vertex
\* (i mod n) + 1.
C8_SnapPointsLayout ==
    ret.op = "snapPoints" =>
        LET n == Len(shape.originalPoints_)
        IN  /\ Len(ret.val) = 2 * n
            /\ \A i \in 1..n :
                  /\ ret.val[i] = CurrentVertex(shape, i)
                  /\ 2 * ret.val[n + i].x = ret.val[i].x + ret.val[(i % n) + 1].x
                  /\ 2 * ret.val[n + i].y = ret.val[i].y + ret.val[(i % n) + 1].y

\* C8 witness: snapPoints() has returned 8 points for a turned, moved square
C8_Witness ==
    /\ ret.op = "snapPoints"
    /\ Len(shape.originalPoints_) = 4
    /\ Len(ret.val) = 8
    /\ shape.rotation_ = -ROTATION_STEP
    /\ lastTarget = MoveTarget(2)

\* C9: the search returns exactly the pairs of a snap point of the current
\* shape and a snap point of the closest shape less than SNAP_DIST_MAX apart,
\* each with its distance, and nothing when a shape is absent.
C9_SnapPairsExact ==
    ret.op = "FindClosestSnapPoints" =>
        IF shape = Null \/ closest = Null THEN snapPairs = <<>>
        ELSE LET A == Range(snapPointsOf(recalculateDrawPoints(shape).drawPoints_))
                 B == Range(snapPointsOf(recalculateDrawPoints(closest).drawPoints_))
             IN  /\ {<<sp.bestCurrentPoint, sp.bestClosestPoint>> : sp \in Range(snapPairs)}
                      = {pr \in A \X B :
                            DistSq(pr[1], pr[2]) < SNAP_DIST_MAX * SNAP_DIST_MAX}
                 /\ \A sp \in Range(snapPairs) :
                       LET d2 == DistSq(sp.bestCurrentPoint, sp.bestClosestPoint)
                       IN  /\ sp.distance >= 0
                           /\ sp.distance * sp.distance <= d2
                           /\ d2 < (sp.distance + 1) * (sp.distance + 1)

\* C9 witness: two touching squares, centroids 30 apart: the pairs found are
\* the three coincident points (distance 0) of the shared edge
C9_Witness ==
    /\ ret.op = "FindClosestSnapPoints"
    /\ shape # Null
    /\ closest # Null
    /\ Len(snapPairs) = 3
    /\ \A sp \in Range(snapPairs) :
          sp.distance = 0 /\ sp.bestCurrentPoint.x = SIDE_LENGTH \div 2

\* C10: the fill pass is on exactly when the colour is not BLANK: a new shape
\* is unfilled, and draw() fills, with color_, exactly when color_ is not BLANK.
C10_FillIffColor ==
    shape # Null =>
        /\ shape.fill_ <=> (shape.color_ # BLANK)
        /\ ret.op = "construct" => ~shape.fill_
        /\ ret.op = "draw" =>
              /\ ret.val.filled <=> (shape.color_ # BLANK)
              /\ ret.val.filled => ret.val.fillColor = shape.color_

\* C10 witness: draw() has filled a square with RED: the three triangles of
\* its fan, the colour RED
C10_Witness ==
    /\ ret.op = "draw"
    /\ ret.val.filled
    /\ ret.val.fillColor = "RED"
    /\ Len(ret.val.fillTriangles) = 3
    /\ Len(shape.originalPoints_) = 4

(***************************************************************************)
(* Properties of the application                                           *)
(***************************************************************************)

\* the last frame ran the PlaceShape tool
PlaceFrame == frame.n > 0 /\ frame.tool = "PlaceShape"

\* two records of the same placed shape: equal once both are recalculated
SameShape(s1, s2) == Refreshed(s1) = Refreshed(s2)

\* C11: a right click in PlaceShape mode removes the last placed shape and
\* nothing else (the shapes before it stay, in order; a left click of the same
\* frame appends after them), does nothing on an empty collection, and the
\* collection holds as many shapes as were placed and not undone: none after
\* k placements and k removals.
C11_UndoLastInFirstOut ==
    /\ (PlaceFrame /\ frame.in.right) =>
          LET before == frame.placedBefore
              kept   == IF before = <<>> THEN 0 ELSE Len(before) - 1
          IN  /\ Len(app.upShapes_) = kept + (IF frame.in.left THEN 1 ELSE 0)
              /\ \A i \in 1..kept : SameShape(app.upShapes_[i], before[i])
    /\ frame # Null => Len(app.upShapes_) = frame.placements - frame.undos

\* C11 witness: two shapes were placed, the first right click has left the
\* first of them, the second right click has left none
C11_Witness ==
    /\ PlaceFrame
    /\ frame.in.right
    /\ ~frame.in.left
    /\ frame.placements = 2
    /\ frame.undos = 2
    /\ Len(frame.placedBefore) = 1
    /\ app.upShapes_ = <<>>

\* C12 (as claimed): whenever a frame dereferences pClosestShape_ (the snap
\* search of the PlaceShape tool, the inside test and colouring of the
\* FillShape tool), the pointer refers to a shape in the placed collection.
C12_ClosestPointerLive ==
    frame # Null => frame.deref # "dangling"

\* the last frame placed a shape: a left click in PlaceShape mode
PlacedNow == PlaceFrame /\ frame.in.left

\* the shape the last frame placed
JustPlaced == app.upShapes_[Len(app.upShapes_)]

\* the shape being placed as it was at the click: at the mouse position
AtClick == moveTo(JustPlaced, frame.in.vMouse)

\* at the click the nearest placed shape exists and has a snap point less
\* than SNAP_DIST_MAX from a snap point of the shape being placed
NearAtClick ==
    /\ IsLive(frame.nearest)
    /\ \E p \in Range(snapPoints(AtClick).value),
          q \in Range(snapPoints(app.upShapes_[frame.nearest.slot]).value) :
           DistSq(p, q) < SNAP_DIST_MAX * SNAP_DIST_MAX

\* C13 (as claimed): a left click that finds no placed shape near enough at
\* the time of the click places the shape with its centroid at the mouse
\* position: it snaps only when NearAtClick.
C13_SnapOnlyWhenNear ==
    (PlacedNow /\ ~NearAtClick) =>
        getCentroid(JustPlaced).value = RoundPointCoordinates(frame.in.vMouse, 1)

\* C14 (as claimed): a placement that snaps (the stored snapPair_ is below
\* SNAP_DIST_MAX) moves the shape by bestClosestPoint - bestCurrentPoint, and
\* the placed shape then has a snap point in common with the nearest shape.
C14_SnapAligns ==
    (PlacedNow /\ frame.snapPair.distance < SNAP_DIST_MAX) =>
        /\ getCentroid(JustPlaced).value =
               VecAdd(RoundPointCoordinates(frame.in.vMouse, 1),
                      VecSub(frame.snapPair.bestClosestPoint,
                             frame.snapPair.bestCurrentPoint))
        /\ IsLive(frame.nearest)
        /\ \E p \in Range(snapPoints(JustPlaced).value),
              q \in Range(snapPoints(app.upShapes_[frame.nearest.slot]).value) :
               p = q

\* the placed shapes the scan of the last frame went through: the collection
\* without the shape a left click appended after the scan
Scanned ==
    IF PlacedNow THEN SubSeq(app.upShapes_, 1, Len(app.upShapes_) - 1)
    ELSE app.upShapes_

\* from the centroid of the i-th scanned shape to the mouse position
CentroidGap(i) == VecSub(frame.in.vMouse, getCentroid(Scanned[i]).value)

\* C18 (as claimed): after the scan of a frame with a non-empty collection the
\* nearest-shape pointer is a placed shape whose centroid is at the least
\* distance from the mouse position, and the first such shape in the order of
\* the collection.
C18_NearestByCentroid ==
    (frame # Null /\ frame.n > 0 /\ Scanned # <<>>) =>
        /\ IsLive(frame.nearest)
        /\ frame.nearest.slot \in 1..Len(Scanned)
        /\ \A j \in 1..Len(Scanned) :
               ~MagLess(CentroidGap(j), CentroidGap(frame.nearest.slot))
        /\ \A j \in 1..(frame.nearest.slot - 1) :
               MagLess(CentroidGap(frame.nearest.slot), CentroidGap(j))

\* one frame as C19 sees it: a current shape exists before and after it, and
\* a left click in PlaceShape mode (never in a frame with a rotation or the
\* SPACE key here) appends the former current shape, same vertices and same
\* rotation, after the shapes that stay, and leaves a new current shape with
\* the vertices of the selected type at the mouse and the rotation of the
\* shape placed
C19_Step ==
    /\ app.upCurrentShape_ # Null
    /\ app'.upCurrentShape_ # Null
    /\ (frame'.n = frame.n + 1 /\ frame'.tool = "PlaceShape" /\ frame'.in.left) =>
          LET before == app.upShapes_
              kept   == IF frame'.in.right /\ before # <<>>
                        THEN Len(before) - 1 ELSE Len(before)
              placed == app'.upShapes_[Len(app'.upShapes_)]
          IN  /\ Len(app'.upShapes_) = kept + 1
              /\ \A i \in 1..kept : SameShape(app'.upShapes_[i], before[i])
              /\ placed.originalPoints_ = app.upCurrentShape_.originalPoints_
              /\ getRotation(placed) = getRotation(app.upCurrentShape_)
              /\ app'.upCurrentShape_.originalPoints_ =
                     CreateNew(app'.currentShapeType_,
                               frame'.in.vMouse).originalPoints_
              /\ getRotation(app'.upCurrentShape_) = getRotation(placed)

\* C19: each left click in PlaceShape mode appends exactly one shape, the
\* former current shape, to the end of the placed collection and leaves a new
\* current shape of the selected type with the rotation of the shape placed;
\* a current shape exists at every frame.
C19_PlaceAppendsCurrent == [][C19_Step]_vars

\* C19 witness: a turned square has been placed by the last frame, and the
\* new current shape is a square turned the same way
C19_Witness ==
    /\ PlacedNow
    /\ app.currentShapeType_ = "Square"
    /\ getRotation(JustPlaced) # 0
    /\ JustPlaced.originalPoints_ # app.upCurrentShape_.originalPoints_
    /\ getRotation(app.upCurrentShape_) = getRotation(JustPlaced)

\* a placed shape without its fill colour and with its derived values
\* recalculated: all that C20 says stays as it is
Uncoloured(s) == [Refreshed(s) EXCEPT !.color_ = BLANK, !.fill_ = FALSE]

\* one frame as C20 sees it: every shape that stays in the collection keeps
\* its place, its rotation, its translation and its vertices; its colour may
\* change
C20_Step ==
    (frame'.n = frame.n + 1) =>
        LET before == app.upShapes_
            kept   == IF frame'.tool = "PlaceShape" /\ frame'.in.right
                         /\ before # <<>>
                      THEN Len(before) - 1 ELSE Len(before)
        IN  /\ Len(app'.upShapes_) >= kept
            /\ \A i \in 1..kept :
                   /\ app'.upShapes_[i].rotation_ = before[i].rotation_
                   /\ app'.upShapes_[i].translation_ = before[i].translation_
                   /\ Uncoloured(app'.upShapes_[i]) = Uncoloured(before[i])

\* C20: a shape in the placed collection keeps its rotation and translation
\* for as long as it stays there, whatever the keys, the wheel, the mouse,
\* the tool switch and later placements do to the current shape; only its
\* fill colour can change.
C20_PlacedShapesFixed == [][C20_Step]_vars

\* C20 witness: the current shape was turned after a shape was placed, and the
\* last frame, a left click of the FillShape tool, has coloured the placed
\* shape, which is where and how it was placed
C20_Witness ==
    /\ frame.n > 0
    /\ frame.tool = "FillShape"
    /\ frame.in.left
    /\ Len(frame.placedBefore) = 1
    /\ ~frame.placedBefore[1].fill_
    /\ app.upShapes_[1].fill_
    /\ app.upShapes_[1].rotation_ = 0
    /\ app.upShapes_[1].translation_ = frame.placedBefore[1].translation_
    /\ app.upCurrentShape_.rotation_ # 0

\* from the centroid of the i-th of the shapes to the point
GapTo(shapes, i, point) == VecSub(point, getCentroid(shapes[i]).value)

\* the index of the shape nearest to the point by its centroid, the first of
\* them on ties (shapes is not empty)
NearestIndex(shapes, point) ==
    CHOOSE k \in 1..Len(shapes) :
        /\ \A j \in 1..Len(shapes) :
               ~MagLess(GapTo(shapes, j, point), GapTo(shapes, k, point))
        /\ \A j \in 1..(k - 1) :
               MagLess(GapTo(shapes, k, point), GapTo(shapes, j, point))

\* the colour and the fill flag of a shape
ColourOf(s) == <<s.color_, s.fill_>>

\* one frame as C21 sees it: a left click of the FillShape tool leaves the
\* collection as long as it was and every shape where and how it was; the
\* nearest placed shape gets the selected colour when the mouse is inside it,
\* and no other shape, placed or current, changes colour
C21_Step ==
    (frame'.n = frame.n + 1 /\ frame'.tool = "FillShape" /\ frame'.in.left) =>
        LET before == app.upShapes_
            after  == app'.upShapes_
            point  == frame'.in.vMouse
            color  == colors_[app'.currentColorIndex_ + 1]
        IN  /\ Len(after) = Len(before)
            /\ \A i \in 1..Len(before) :
                   Uncoloured(after[i]) = Uncoloured(before[i])
            /\ ColourOf(app'.upCurrentShape_) = ColourOf(app.upCurrentShape_)
            /\ \A i \in 1..Len(before) :
                   IF /\ i = NearestIndex(before, point)
                      /\ ParityInside(Refreshed(before[i]).drawPoints_, point)
                   THEN ColourOf(after[i]) = <<color, color # BLANK>>
                   ELSE ColourOf(after[i]) = ColourOf(before[i])

\* C21 (as claimed): a left click in FillShape mode changes the colour of at
\* most one shape: it sets the selected palette colour on the placed shape
\* nearest by centroid if and only if the mouse is inside that shape, changes
\* no other shape's colour and neither adds nor removes a placed shape.
C21_FillClickColoursNearest == [][C21_Step]_vars


(***************************************************************************)
(* Properties of the recalculation                                         *)
(***************************************************************************)

\* the calls that read derived values / that change rotation_ or translation_
Readers == {"getCentroid", "snapPoints", "draw"}

Mutators == {"construct", "rotate", "moveTo"}

\* one step of the dirty-flag protocol, from the call before to the call made
C15_Step ==
    shape' # Null =>
        /\ ret'.op \in Mutators => shape'.dirty_
        /\ ret'.op \in Readers =>
              /\ ~shape'.dirty_
              /\ shape.dirty_ =>
                    shape' = [recalculateDrawPoints(shape) EXCEPT !.dirty_ = FALSE]
              /\ ~shape.dirty_ =>
                    /\ shape' = shape
                    /\ ret.op = ret'.op => ret'.val = ret.val
        /\ ret'.op \in {"getRotation", "isInside", "setColor"} =>
              shape'.dirty_ = shape.dirty_
        /\ (shape # Null /\ shape.dirty_ /\ ~shape'.dirty_) => ret'.op \in Readers

\* C15: dirty_ is set by the constructor and by every rotate and moveTo; it
\* is cleared only by getCentroid, snapPoints or draw, which then leave the
\* recalculated points and centroid; getRotation (and isInside, setColor)
\* leave it as it is; a read of a clean shape changes nothing in the shape,
\* and repeated it returns what it returned before.
C15_DirtyProtocol == [][C15_Step]_vars

\* C15 witness: draw() has returned for a turned, moved square, which is
\* clean and holds the points recalculated from its rotation_ and translation_
C15_Witness ==
    /\ ret.op = "draw"
    /\ ~shape.dirty_
    /\ Len(shape.originalPoints_) = 4
    /\ shape.rotation_ = ROTATION_STEP
    /\ lastTarget = MoveTarget(2)
    /\ shape.drawPoints_ = recalculateDrawPoints(shape).drawPoints_
    /\ shape.drawPoints_ # shape.originalPoints_

\* one step, from the shape before a call to the shape after it
C16_Step ==
    (shape # Null /\ shape' # Null) =>
        /\ shape'.originalPoints_ = shape.originalPoints_
        /\ shape'.originalCentroid_ = shape.originalCentroid_
        /\ Len(vertices(shape')) = Len(vertices(shape))
        /\ ret'.op # "rotate" => shape'.rotation_ = shape.rotation_
        /\ ret'.op # "moveTo" => shape'.translation_ = shape.translation_
        /\ ret'.op # "setColor" =>
              (shape'.color_ = shape.color_ /\ shape'.fill_ = shape.fill_)
        /\ ret'.op = "rotate" =>
              getCentroid(shape').value = getCentroid(shape).value

\* C16: rotate changes rotation_ and leaves translation_ and the centroid
\* returned as they were; moveTo changes translation_ and leaves rotation_;
\* setColor changes neither; no call on a constructed shape changes
\* originalPoints_, originalCentroid_ or the number of vertices returned.
C16_OwnFieldOnly == [][C16_Step]_vars

\* C16 witness: rotate has been called on a triangle moved to the first
\* target: the triangle is turned, its translation_ is still that of the
\* target and its original points are the constructor's
C16_Witness ==
    /\ ret.op = "rotate"
    /\ shape.rotation_ = -ROTATION_STEP
    /\ lastTarget = MoveTarget(1)
    /\ shape.translation_ = VecSub(MoveTarget(1), shape.originalCentroid_)
    /\ shape.originalPoints_ = TrianglePoints(Vec(0, 0))
    /\ shape.color_ = "RED"

\* original point i of s rotated about the original centroid, unrounded: the
\* coordinates are numerators over TRIG_SCALE ticks
RotatedExact(s, i) ==
    LET dx == s.originalPoints_[i].x - s.originalCentroid_.x
        dy == s.originalPoints_[i].y - s.originalCentroid_.y
    IN  Vec(dx * Cos(s.rotation_) - dy * Sin(s.rotation_)
                + s.originalCentroid_.x * TRIG_SCALE,
            dx * Sin(s.rotation_) + dy * Cos(s.rotation_)
                + s.originalCentroid_.y * TRIG_SCALE)

\* the rotated point plus translation_, rounded to 2 decimals once
RoundedOnce(s, i) ==
    RoundPointCoordinates(
        VecAdd(RotatedExact(s, i),
               Vec(s.translation_.x * TRIG_SCALE, s.translation_.y * TRIG_SCALE)),
        TRIG_SCALE)

\* the rotated point rounded to 2 decimals, plus translation_, rounded again
RoundedTwice(s, i) ==
    RoundPointCoordinates(
        VecAdd(RoundPointCoordinates(RotatedExact(s, i), TRIG_SCALE), s.translation_),
        1)

\* translation_ is a multiple of 0.01 in both coordinates
OnCentGrid(v) == v.x % TicksPerCent = 0 /\ v.y % TicksPerCent = 0

\* C17 (as claimed): after a recalculation every draw point of a polygon is
\* the rotated point plus the translation, rounded to 2 decimals once.
C17_RoundedOnce ==
    (shape # Null /\ ret.op \in Readers /\ Len(shape.originalPoints_) >= 3) =>
        \A i \in 1..Len(shape.originalPoints_) :
            shape.drawPoints_[i] = RoundedOnce(shape, i)

\* C17 (amended): after a recalculation every draw point is the rotated point
\* rounded to 2 decimals, plus the translation, rounded to 2 decimals again;
\* that is the once-rounded value when the translation is a multiple of 0.01.
C17_RoundedTwice ==
    (shape # Null /\ ret.op \in Readers) =>
        \A i \in 1..Len(shape.originalPoints_) :
            /\ shape.drawPoints_[i] = RoundedTwice(shape, i)
            /\ OnCentGrid(shape.translation_) =>
                  shape.drawPoints_[i] = RoundedOnce(shape, i)

\* C17 witness: a triangle turned and moved to (30.005, -10.005) has been
\* recalculated, and one of its draw points is not the once-rounded value
C17_Witness ==
    /\ shape # Null
    /\ ret.op \in Readers
    /\ Len(shape.originalPoints_) = 3
    /\ shape.rotation_ # 0
    /\ lastTarget = MoveTarget(1)
    /\ ~OnCentGrid(shape.translation_)
    /\ \E i \in 1..Len(shape.originalPoints_) :
          /\ shape.drawPoints_[i] = RoundedTwice(shape, i)
          /\ shape.drawPoints_[i] # RoundedOnce(shape, i)

====
